---- MODULE Spec2Model ----
(***************************************************************************)
(* goDocument: file watcher -> dedup/debounce filter -> parser -> docMap   *)
(* -> JSON index.  The watch loop (FileWatcher.Watch), the two filter      *)
(* variants (logEvent with a slice of recent log lines, debounceParsing    *)
(* with a map of recent keys and time.AfterFunc), the retrying parser      *)
(* (FileParser.ParseFile / tryParseFile / extractFileData /                *)
(* writeJSONToFile) and their environment (file system, clock, I/O         *)
(* failures, signals) as one state machine.                                *)
(***************************************************************************)
EXTENDS Integers, Sequences, FiniteSets, TLC

VARIABLES
    policy,        \* which FileWatcher variant runs: "dedup", "debounce" or "keyed"
    mode,          \* which writeJSONToFile target: "aggregate" or "mirror"
    stamp,         \* wall clock as rendered by Format("15:04:05")
    fs,            \* content of each watched file
    docMap,        \* FileParser.docMap
    refJson,       \* content of reference.json
    recentLogs,    \* FileWatcher.recentLogs, the []string variant
    recentKeys,    \* FileWatcher.recentLogs, the map[string]struct{} variant
    logFile,       \* lines appended to the log file
    logOpen,       \* the log file is open
    watcherOpen,   \* the fsnotify watcher is open
    loop,          \* the watch-loop goroutine: "select", "parsing", "stopped"
    tasks,         \* scheduled and running ParseFile activations, by event number
    printed,       \* the error lines the last step wrote with log.Printf / fmt.Printf
    nEvents,       \* number of events received from watcher.Events
    last,          \* observation: the event received last and what became of it
    prev,          \* observation: the event that reached logEvent before cur
    cur,           \* observation: the event that reached logEvent last
    lastDone,      \* observation: the ParseFile call that returned last
    lastGood,      \* observation: per path, the record of its latest successful parse
    mainPc,        \* the main goroutine: where it is in NewFileWatcher, Watch, Wait
    mainKind,      \* what main does after Watch: "forever" (select {}) or "wait" (Wait)
    sigLoop,       \* a signal is buffered in the signalChan made by Watch
    sigWait,       \* a signal is buffered in the signalChan made by Wait
    closes,        \* how often each resource has been closed
    handled,       \* observation: the watch loop has taken its signal case
    paramFields,   \* the parameter list (d.Type.Params.List) of a function declaration
    funcDetail,    \* the FunctionDetail extracted from it
    nextField,     \* position of the range loop over the parameter list
    jsonFailed,    \* observation: the paths whose record is stored and whose JSON write failed
    decls,         \* the declarations (node.Decls) of a parsed file
    fileData,      \* the FileData extractFileData builds from them
    nextDecl,      \* position of the range loop over the declarations
    tree,          \* what filepath.Walk visits under the directory given to BuildFileStructure
    nextNode,      \* position of that walk
    srcNow,        \* content of each visited file
    refs,          \* the directories and files made by BuildFileStructure, by path
    built,         \* BuildFileStructure: "walking", "done" or "failed"
    walk,          \* what filepath.Walk visits under the directory given to Watch
    nextEntry,     \* position of that walk
    registered,    \* the directories added to the fsnotify watcher
    walked,        \* watchSubdirectories: "walking", "done" or "aborted"
    events         \* the notifications of the program's own writes, not yet received

config  == <<policy, mode>>
store   == <<docMap, refJson, jsonFailed>>
filter  == <<recentLogs, recentKeys>>
handles == <<logOpen, watcherOpen>>
seen    == <<nEvents, last, prev, cur>>
process == <<mainPc, mainKind, sigLoop, sigWait>>
life    == <<process, closes, handled>>
extraction == <<paramFields, funcDetail, nextField>>
declarations == <<decls, fileData, nextDecl>>
build   == <<tree, nextNode, srcNow, refs, built>>
subdirs == <<walk, nextEntry, registered, walked>>
passes  == <<declarations, build, subdirs>>

vars == <<policy, mode, stamp, fs, docMap, refJson, recentLogs, recentKeys,
          logFile, logOpen, watcherOpen, loop, tasks, printed, nEvents,
          last, prev, cur, lastDone, lastGood, mainPc, mainKind, sigLoop,
          sigWait, closes, handled, paramFields, funcDetail, nextField, jsonFailed,
          decls, fileData, nextDecl, tree, nextNode, srcNow, refs, built,
          walk, nextEntry, registered, walked, events>>

\* the variables of the watcher, the parser and main
watching == <<life, config, stamp, fs, store, filter, logFile, handles, loop,
              tasks, printed, seen, lastDone, lastGood, events>>

---------------------------------------------------------------------------
(* Bounds *)

MaxEvents == 2      \* events delivered on watcher.Events
MaxBurst  == 3      \* events delivered on watcher.Events when nothing else happens
MaxStamp  == 1      \* the clock shows seconds 0 .. MaxStamp
MaxLifeEvents == 1  \* events delivered on watcher.Events between start and exit
MaxFields == 2      \* fields in the parameter list of a function declaration
MaxDecls  == 3      \* top-level declarations of a file
MaxWalk   == 3      \* files and directories below the watched root
MaxSelf   == 6      \* events received from a queue of the program's own notifications

(* Program constants *)

retryCount == 3     \* fp.tryParseFile(filePath, 3)

---------------------------------------------------------------------------
(* Values *)

Paths    == {"a.go", "b.go"}
EventOps == {{"Create"}, {"Write"}, {"Chmod"}, {"Remove"}, {"Remove", "Write"}}
Contents == {"empty", "bad", "v1", "v2"}
NoEntry  == "none"
NoError  == "nil"

\* the events the notification facility delivers: every operation on the
\* first path, writes of the second
Events == [name : {"a.go"}, op : EventOps] \cup {[name |-> "b.go", op |-> {"Write"}]}

\* the events of a burst: one path
BurstEvents == {e \in Events : e.name = "a.go"}

\* go/parser.ParseFile yields a syntax tree for these contents only
ParseOK(c) == c \in {"v1", "v2"}

\* extractFileData: the FileData built from the syntax tree of content c
Extract(c) == IF c = "v1" THEN "r1" ELSE "r2"

\* json.Encoder.Encode of a FileData, as the content of the file it is written to
ToJson(r) == IF r = "r1" THEN "j1" ELSE IF r = "r2" THEN "j2" ELSE "j0"

\* os.Stat(filePath): err == nil && !info.IsDir() && info.Size() > 0
fileExistsAndReadable(c) == c # "empty"

\* event.Op&fsnotify.Write == fsnotify.Write || event.Op&fsnotify.Create == fsnotify.Create
IsWriteOrCreate(op) == "Write" \in op \/ "Create" \in op

\* the Remove test as an equality with fsnotify.Remove
IsRemoveExact(op) == op = {"Remove"}

\* event.Op&fsnotify.Remove == fsnotify.Remove
IsRemove(op) == "Remove" \in op

\* fmt.Sprintf("%s, %s, %s", timestamp, event.Name, event.Op)
LogEntry(t, name, op) == <<t, name, op>>

\* fmt.Sprintf("%s:%s", event.Name, event.Op)
LogKey(name, op) == <<name, op>>

\* the duplicate check with the length test off by one
IsDuplicateLong(recent, entry) == Len(recent) > 1 /\ recent[Len(recent)] = entry

\* len(fw.recentLogs) > 0 && fw.recentLogs[len(fw.recentLogs)-1] == logEntry
IsDuplicate(recent, entry) == Len(recent) > 0 /\ recent[Len(recent)] = entry

\* the duplicate branch without its reset
KeptLogs(recent) == recent

\* fw.recentLogs = []string{}
ClearedLogs(recent) == <<>>

\* _, exists := fw.recentLogs[logKey]
KeySeen(keys, key) == key \in keys

---------------------------------------------------------------------------
(* Events, tasks and observations *)

None == [name |-> "", op |-> {}, at |-> 0, res |-> "none", run |-> 0, runKey |-> 0,
         clean |-> TRUE]

NoCall == [name |-> "", result |-> "none", tries |-> 0, lastErr |-> NoError]

Idle == loop = "select" /\ watcherOpen

\* a ParseFile activation: armed (its timer runs) or in tryParseFile's loop
NewTask(e, pc, before) ==
    [name |-> e.name, op |-> e.op, pc |-> pc, i |-> 0, lastErr |-> NoError,
     before |-> before, folded |-> 0]

TaskKey(t) == LogKey(tasks[t].name, tasks[t].op)

\* delete(fp.docMap, filePath)
Deleted(m, name) == [m EXCEPT ![name] = NoEntry]

\* fp.docMap[filePath] = fileData
Put(m, name, rec) == [m EXCEPT ![name] = rec]

EmptyMap == [p \in Paths |-> NoEntry]

\* nothing has been closed
NoCloses == [watcher |-> 0, log |-> 0, done |-> 0]

\* no FunctionDetail has been built
NoDetail == [params |-> <<>>, paramTypes |-> <<>>]

\* the function with t removed from its domain
Without(f, t) ==
    IF DOMAIN f = {t} THEN <<>> ELSE [u \in DOMAIN f \ {t} |-> f[u]]

\* no function declaration is being extracted
NoParams ==
    /\ paramFields = <<>>
    /\ funcDetail = NoDetail
    /\ nextField = 1

NoFileData == [package |-> "", imports |-> <<>>, functions |-> <<>>]

\* no file's declarations are being extracted
NoDecls ==
    /\ decls = <<>>
    /\ fileData = NoFileData
    /\ nextDecl = 1

\* BuildFileStructure has run
NoBuild ==
    /\ tree = <<>>
    /\ nextNode = 1
    /\ srcNow = <<>>
    /\ refs = <<>>
    /\ built = "done"

\* watchSubdirectories has run
NoSubdirs ==
    /\ walk = <<>>
    /\ nextEntry = 1
    /\ registered = {}
    /\ walked = "done"

NoPasses == NoDecls /\ NoBuild /\ NoSubdirs

---------------------------------------------------------------------------
(* Init: NewFileParser, NewFileWatcher and Watch up to the select loop *)

Init ==
    /\ policy \in {"dedup", "debounce"}
    /\ mode \in {"aggregate", "mirror"}
    /\ stamp = 0
    /\ fs = [p \in Paths |-> "v1"]
    /\ docMap = EmptyMap
    /\ jsonFailed = {}
    /\ refJson = [state |-> "absent", map |-> EmptyMap]
    /\ recentLogs = <<>>
    /\ recentKeys = {}
    /\ logFile = <<>>
    /\ logOpen = TRUE
    /\ watcherOpen = TRUE
    /\ loop = "select"
    /\ tasks = <<>>
    /\ printed = <<>>
    /\ nEvents = 0
    /\ last = [name |-> "", op |-> {}, res |-> "none", parsed |-> FALSE,
               inWindow |-> FALSE, settled |-> FALSE, afterErr |-> FALSE]
    /\ prev = None
    /\ cur = None
    /\ lastDone = NoCall
    /\ lastGood = EmptyMap
    /\ mainPc = "wait"
    /\ mainKind = "forever"
    /\ sigLoop = FALSE
    /\ sigWait = FALSE
    /\ closes = NoCloses
    /\ handled = FALSE
    /\ events = <<>>
    /\ NoParams
    /\ NoPasses

---------------------------------------------------------------------------
(* Environment *)

\* the clock reaches the next second.  While an extraction is scheduled or
\* running the clock is read by nobody; its advance shows when it has returned.
Tick ==
    /\ stamp < MaxStamp
    /\ DOMAIN tasks = {}
    /\ stamp' = stamp + 1
    /\ printed' = <<>>
    /\ UNCHANGED <<life, extraction, config, passes, events, fs, store, filter, logFile, handles, loop, tasks,
                   seen, lastDone, lastGood>>

\* another process rewrites a watched file.  A rewrite is taken where the
\* program can see it: while tryParseFile is running on that path; one made
\* earlier shows as one made just before the first attempt.
FsWrite(p, c) ==
    /\ fs[p] # c
    /\ \E t \in DOMAIN tasks : tasks[t].name = p /\ tasks[t].pc = "try"
    /\ fs' = [fs EXCEPT ![p] = c]
    /\ printed' = <<>>
    /\ UNCHANGED <<life, extraction, config, passes, events, stamp, store, filter, logFile, handles, loop, tasks,
                   seen, lastDone, lastGood>>

---------------------------------------------------------------------------
(* The watch loop, immediate dedup: Watch and logEvent with the slice *)

\* what logEvent does with an entry: the outcome of its duplicate check and
\* of logFile.WriteString
LogOutcome(recent, entry, wok) ==
    IF IsDuplicate(recent, entry) THEN "suppressed"
    ELSE IF wok THEN "logged" ELSE "logfail"

\* fw.recentLogs after logEvent
LogMemory(recent, entry, res) ==
    IF res = "suppressed" THEN ClearedLogs(recent)
    ELSE IF res = "logged" THEN Append(recent, entry)
    ELSE recent

\* the record kept of a received event
Seen(e, res, parsed) ==
    [name |-> e.name, op |-> e.op, res |-> res, parsed |-> parsed,
     inWindow |-> \E t \in DOMAIN tasks :
                     TaskKey(t) = LogKey(e.name, e.op) /\ tasks[t].pc = "armed",
     settled |-> /\ KeySeen(recentKeys, LogKey(e.name, e.op))
                 /\ ~\E t \in DOMAIN tasks : TaskKey(t) = LogKey(e.name, e.op),
     afterErr |-> printed # <<>>]

\* the record kept of an event that reached logEvent
Filtered(e, res) ==
    [name |-> e.name, op |-> e.op, at |-> stamp, res |-> res,
     run |-> IF <<cur.name, cur.op, cur.at>> = <<e.name, e.op, stamp>>
             THEN cur.run + 1 ELSE 1,
     runKey |-> IF <<cur.name, cur.op>> = <<e.name, e.op>>
                THEN cur.runKey + 1 ELSE 1,
     clean |-> cur.clean /\ res # "logfail"]

\* case event := <-fw.watcher.Events, in the variant that calls logEvent and
\* then ParseFile; ParseFile runs on the loop's goroutine up to its first attempt
WatchEventDedup(e, wok) ==
    LET idx   == nEvents + 1
        entry == LogEntry(stamp, e.name, e.op)
        res   == IF IsRemove(e.op) THEN "discarded"
                 ELSE LogOutcome(recentLogs, entry, wok)
        parse == ~IsRemove(e.op) /\ IsWriteOrCreate(e.op)
    IN  /\ policy = "dedup"
        /\ Idle
        /\ ~wok => res = "logfail"
        /\ nEvents' = idx
        /\ last' = Seen(e, res, parse)
        /\ IF IsRemove(e.op)
           THEN UNCHANGED <<prev, cur>>
           ELSE prev' = cur /\ cur' = Filtered(e, res)
        /\ recentLogs' = LogMemory(recentLogs, entry, res)
        /\ logFile' = IF res = "logged" THEN Append(logFile, entry) ELSE logFile
        /\ printed' = IF res = "logfail" THEN <<"logwrite">> ELSE <<>>
        /\ IF parse
           THEN /\ tasks' = tasks @@ (idx :> NewTask(e, "try", docMap[e.name]))
                /\ docMap' = Deleted(docMap, e.name)
                /\ jsonFailed' = jsonFailed \ {e.name}
                /\ loop' = "parsing"
           ELSE UNCHANGED <<tasks, docMap, jsonFailed, loop>>
        /\ UNCHANGED <<life, extraction, config, passes, stamp, fs, refJson, recentKeys, handles,
                       lastDone, lastGood>>

---------------------------------------------------------------------------
(* The watch loop, windowed debounce: Watch and debounceParsing with the map *)

\* a dropped event is counted on the armed task of its key
Fold(ts, key) ==
    IF DOMAIN ts = {} THEN ts
    ELSE [t \in DOMAIN ts |->
            IF LogKey(ts[t].name, ts[t].op) = key /\ ts[t].pc = "armed"
            THEN [ts[t] EXCEPT !.folded = @ + 1] ELSE ts[t]]

\* debounceParsing without its check of the map
AlwaysScheduled(keys, key) == "scheduled"

\* debounceParsing's check: the event is dropped or its extraction is scheduled
DebounceOutcome(keys, key) == IF KeySeen(keys, key) THEN "dropped" ELSE "scheduled"

\* case event := <-fw.watcher.Events, in the variant that calls debounceParsing
WatchEventDebounce(e) ==
    LET idx  == nEvents + 1
        key  == LogKey(e.name, e.op)
        res  == IF IsRemove(e.op) THEN "discarded"
                ELSE DebounceOutcome(recentKeys, key)
    IN  /\ policy = "debounce"
        /\ Idle
        /\ nEvents' = idx
        /\ last' = Seen(e, res, FALSE)
        /\ IF res = "scheduled"
           THEN /\ recentKeys' = recentKeys \cup {key}
                /\ tasks' = tasks @@ (idx :> NewTask(e, "armed", NoEntry))
           ELSE /\ UNCHANGED recentKeys
                /\ tasks' = IF res = "dropped" THEN Fold(tasks, key) ELSE tasks
        /\ printed' = <<>>
        /\ UNCHANGED <<life, extraction, config, passes, events, stamp, fs, store, recentLogs, logFile, handles,
                       loop, prev, cur, lastDone, lastGood>>

\* the function given to time.AfterFunc starts: ParseFile up to its first attempt
TimerFire(t) ==
    /\ t \in DOMAIN tasks
    /\ tasks[t].pc = "armed"
    /\ tasks' = [tasks EXCEPT ![t].pc = "try", ![t].before = docMap[tasks[t].name]]
    /\ docMap' = Deleted(docMap, tasks[t].name)
    /\ jsonFailed' = jsonFailed \ {tasks[t].name}
    /\ printed' = <<>>
    /\ UNCHANGED <<life, extraction, config, passes, events, stamp, fs, refJson, filter, logFile, handles, loop,
                   seen, lastDone, lastGood>>

---------------------------------------------------------------------------
(* The parser: tryParseFile, extractFileData, writeJSONToFile *)

WriteOutcomes == {"ok", "createErr", "encodeErr"}

\* writeJSONToFile("reference.json"): os.Create truncates, Encode(fp.docMap)
WriteAggregate(ref, m, w) ==
    IF w = "ok" THEN [state |-> "written", map |-> m]
    ELSE IF w = "encodeErr" THEN [state |-> "truncated", map |-> EmptyMap]
    ELSE ref

\* writeJSONToFile(filePath): os.Create(filePath) truncates the file at the
\* path that was parsed, Encode(fp.docMap[filePath]) fills it
WriteMirror(f, name, m, w) ==
    IF w = "ok" THEN [f EXCEPT ![name] = ToJson(m[name])]
    ELSE IF w = "encodeErr" THEN [f EXCEPT ![name] = "empty"]
    ELSE f

\* lastErr after an attempt that produced no syntax tree
NextErr(c, lastErr) == IF fileExistsAndReadable(c) THEN "syntax" ELSE lastErr

\* fmt.Sprintf("%s, %s, %s\n", event.Name, event.Op, timestamp)
DebounceLine(name, op, t) == <<name, op, t>>

\* the record kept of a ParseFile call that returned: the attempts it made
\* and tryParseFile's lastErr when it returned
Call(tk, result, lastErr) ==
    [name |-> tk.name, result |-> result, tries |-> tk.i + 1, lastErr |-> lastErr]

\* a loop that runs once more than retryCount
LastAttemptLate(i) == i >= retryCount

\* a loop that runs once
OnlyAttempt(i) == i + 1 >= 1

\* for i := 0; i < retryCount; i++: the iteration with index i is the last one
LastAttempt(i) == i + 1 >= retryCount

\* a store that keeps the record only when the JSON write succeeded
StoredUnlessWriteFails(m, name, rec, w) == IF w = "ok" THEN Put(m, name, rec) ELSE m

\* fp.docMap[filePath] = fileData comes before writeJSONToFile and is not
\* undone by its outcome w
Stored(m, name, rec, w) == Put(m, name, rec)

\* an iteration that hands the tree to extractFileData whatever
\* parser.ParseFile returned
ParsesUnchecked(c) == fileExistsAndReadable(c)

\* an iteration of tryParseFile's loop reaches extractFileData: the file is
\* there and parser.ParseFile returned no error
Parses(c) == fileExistsAndReadable(c) /\ ParseOK(c)

\* one iteration of tryParseFile's loop, with what follows it when it is the
\* last one: extractFileData and the return into ParseFile on success, the
\* return of lastErr after retryCount attempts, and, in the deferred function,
\* the logEvent call that follows ParseFile
Attempt(t, w, lw) ==
    LET tk       == tasks[t]
        name     == tk.name
        c        == fs[name]
        good     == Parses(c)
        map1     == Stored(docMap, name, Extract(c), w)
        err1     == NextErr(c, tk.lastErr)
        last1    == LastAttempt(tk.i)
        finished == good \/ last1
        logs     == finished /\ policy = "debounce"
        jsonErrs  == IF good /\ w # "ok" THEN <<"json">> ELSE <<>>
        parseErrs == IF ~good /\ last1 /\ err1 # NoError THEN <<"parse">> ELSE <<>>
        logErrs   == IF logs /\ ~lw THEN <<"logwrite">> ELSE <<>>
    IN  /\ t \in DOMAIN tasks
        /\ tk.pc = "try"
        /\ w # "ok" => good
        /\ lw => logs /\ logOpen
        /\ docMap' = IF good THEN map1 ELSE docMap
        /\ jsonFailed' = IF ~good THEN jsonFailed
                         ELSE IF w = "ok" THEN jsonFailed \ {name}
                         ELSE jsonFailed \cup {name}
        /\ lastGood' = IF good THEN Put(lastGood, name, Extract(c)) ELSE lastGood
        /\ refJson' = IF good /\ mode = "aggregate"
                      THEN WriteAggregate(refJson, map1, w) ELSE refJson
        /\ fs' = IF good /\ mode = "mirror"
                 THEN WriteMirror(fs, name, map1, w) ELSE fs
        /\ tasks' = IF finished THEN Without(tasks, t)
                    ELSE [tasks EXCEPT ![t].i = @ + 1, ![t].lastErr = err1]
        /\ lastDone' = IF good THEN Call(tk, "ok", tk.lastErr)
                       ELSE IF last1 THEN Call(tk, "fail", err1)
                       ELSE lastDone
        /\ printed' = jsonErrs \o parseErrs \o logErrs
        /\ logFile' = IF logs /\ lw
                      THEN Append(logFile, DebounceLine(name, tk.op, stamp))
                      ELSE logFile
        /\ loop' = IF finished /\ policy # "debounce" THEN "select" ELSE loop
        /\ UNCHANGED <<life, extraction, config, passes, stamp, filter, handles, seen>>

---------------------------------------------------------------------------
(* The watch loop's other cases *)

\* the Errors case returning from Watch as the signal case does
WatchErrorReturns ==
    /\ Idle
    /\ watcherOpen' = FALSE
    /\ logOpen' = FALSE
    /\ loop' = "stopped"
    /\ printed' = <<"watch">>
    /\ UNCHANGED <<life, extraction, config, passes, events, stamp, fs, store, filter, logFile, tasks, seen,
                   lastDone, lastGood>>

\* case err := <-fw.watcher.Errors: the error is printed and the loop goes on
WatchError ==
    /\ Idle
    /\ printed' = <<"watch">>
    /\ UNCHANGED <<life, extraction, config, passes, events, stamp, fs, store, filter, logFile, handles, loop,
                   tasks, seen, lastDone, lastGood>>

\* FileWatcher.Close: fw.watcher.Close(), fw.logFile.Close() and, where the
\* watcher has a done channel, close(fw.done)
Closed(c) ==
    [watcher |-> c.watcher + 1, log |-> c.log + 1,
     done |-> IF policy = "debounce" THEN c.done + 1 ELSE c.done]

\* the signal case calls fw.Close() before it returns; the keyed variant only returns
ClosesOnSignal == policy \in {"dedup", "debounce"}

\* the signal case without its return: the loop goes on selecting
HandleSignalStays ==
    /\ sigLoop' = FALSE
    /\ handled' = TRUE
    /\ IF ClosesOnSignal
       THEN /\ watcherOpen' = FALSE
            /\ logOpen' = FALSE
            /\ closes' = Closed(closes)
       ELSE UNCHANGED <<watcherOpen, logOpen, closes>>
    /\ printed' = <<>>
    /\ UNCHANGED <<mainPc, mainKind, sigWait, extraction, config, passes, events, stamp, fs, store,
                   filter, logFile, loop, tasks, seen, lastDone, lastGood>>

\* case <-signalChan: fw.Close() where the variant has it, and return
HandleSignal ==
    /\ sigLoop' = FALSE
    /\ handled' = TRUE
    /\ loop' = "stopped"
    /\ IF ClosesOnSignal
       THEN /\ watcherOpen' = FALSE
            /\ logOpen' = FALSE
            /\ closes' = Closed(closes)
       ELSE UNCHANGED <<watcherOpen, logOpen, closes>>
    /\ printed' = <<>>
    /\ UNCHANGED <<mainPc, mainKind, sigWait, extraction, config, passes, events, stamp, fs, store,
                   filter, logFile, tasks, seen, lastDone, lastGood>>

\* a signal arrives while the loop waits in select and is taken at once
Signal == Idle /\ ~sigLoop /\ HandleSignal

---------------------------------------------------------------------------
(* The process: main, NewFileWatcher, Watch up to the loop, Wait, signals *)

\* the process has not ended
Alive == mainPc \notin {"exited", "fatal"}

\* fsnotify.NewWatcher() in NewFileWatcher; on an error main ends in log.Fatalf
NewWatcher(ok) ==
    /\ mainPc = "newWatcher"
    /\ watcherOpen' = ok
    /\ mainPc' = IF ~ok THEN "fatal"
                 ELSE IF policy = "dedup" THEN "mkdir" ELSE "openLog"
    /\ printed' = IF ok THEN <<>> ELSE <<"init">>
    /\ UNCHANGED <<mainKind, sigLoop, sigWait, closes, handled, extraction, config, passes, events,
                   stamp, fs, store, filter, logFile, logOpen, loop, tasks, seen,
                   lastDone, lastGood>>

\* os.MkdirAll("logs", os.ModePerm) in NewFileWatcher: return nil, err on an error
MkdirLogs(ok) ==
    /\ mainPc = "mkdir"
    /\ mainPc' = IF ok THEN "openLog" ELSE "fatal"
    /\ printed' = IF ok THEN <<>> ELSE <<"init">>
    /\ UNCHANGED <<mainKind, sigLoop, sigWait, closes, handled, extraction, config, passes, events,
                   stamp, fs, store, filter, logFile, handles, loop, tasks, seen,
                   lastDone, lastGood>>

\* os.OpenFile(logFileName, ...) in NewFileWatcher: return nil, err on an error
OpenLog(ok) ==
    /\ mainPc = "openLog"
    /\ logOpen' = ok
    /\ mainPc' = IF ok THEN "add" ELSE "fatal"
    /\ printed' = IF ok THEN <<>> ELSE <<"init">>
    /\ UNCHANGED <<mainKind, sigLoop, sigWait, closes, handled, extraction, config, passes, events,
                   stamp, fs, store, filter, logFile, watcherOpen, loop, tasks, seen,
                   lastDone, lastGood>>

\* Watch: fw.watcher.Add(dir), log.Fatalf on an error; signal.Notify and the
\* loop's goroutine started otherwise
WatchAdd(ok) ==
    /\ mainPc = "add"
    /\ mainPc' = IF ok THEN "notify" ELSE "fatal"
    /\ loop' = IF ok THEN "select" ELSE loop
    /\ printed' = IF ok THEN <<>> ELSE <<"init">>
    /\ UNCHANGED <<mainKind, sigLoop, sigWait, closes, handled, extraction, config, passes, events,
                   stamp, fs, store, filter, logFile, handles, tasks, seen,
                   lastDone, lastGood>>

\* main after Watch has returned: select {} or fileWatcher.Wait(), which in the
\* variant with its own signalChan calls signal.Notify
MainWaits ==
    /\ mainPc = "notify"
    /\ mainPc' = "wait"
    /\ printed' = <<>>
    /\ UNCHANGED <<mainKind, sigLoop, sigWait, closes, handled, extraction, config, passes, events,
                   stamp, fs, store, filter, logFile, handles, loop, tasks, seen,
                   lastDone, lastGood>>

\* Wait has called signal.Notify on a channel of its own
WaitNotified == mainKind = "wait" /\ policy = "dedup" /\ mainPc = "wait"

\* SIGINT or SIGTERM is delivered: a copy goes to every channel given to
\* signal.Notify that has room for it
SignalArrives ==
    /\ mainPc \in {"notify", "wait", "returning"}
    /\ sigLoop' = TRUE
    /\ sigWait' = (sigWait \/ WaitNotified)
    /\ printed' = <<>>
    /\ UNCHANGED <<mainPc, mainKind, closes, handled, extraction, config, passes, events, stamp, fs,
                   store, filter, logFile, handles, loop, tasks, seen, lastDone,
                   lastGood>>

\* the loop's select takes the buffered signal
LoopSignal == loop = "select" /\ sigLoop /\ HandleSignal

\* case event, ok := <-fw.watcher.Events with the channel closed: if !ok { return }
LoopChannelClosed ==
    /\ loop = "select"
    /\ ~watcherOpen
    /\ loop' = "stopped"
    /\ printed' = <<>>
    /\ UNCHANGED <<life, extraction, config, passes, events, stamp, fs, store, filter, logFile,
                   handles, tasks, seen, lastDone, lastGood>>

\* Wait with its own signalChan: <-signalChan and fw.Close()
WaitSignal ==
    /\ WaitNotified
    /\ sigWait
    /\ sigWait' = FALSE
    /\ watcherOpen' = FALSE
    /\ logOpen' = FALSE
    /\ closes' = Closed(closes)
    /\ mainPc' = "returning"
    /\ printed' = <<>>
    /\ UNCHANGED <<mainKind, sigLoop, handled, extraction, config, passes, events, stamp, fs, store,
                   filter, logFile, loop, tasks, seen, lastDone, lastGood>>

\* Wait on the done channel: <-fw.done
WaitDone ==
    /\ mainKind = "wait"
    /\ policy = "debounce"
    /\ mainPc = "wait"
    /\ closes.done > 0
    /\ mainPc' = "returning"
    /\ printed' = <<>>
    /\ UNCHANGED <<mainKind, sigLoop, sigWait, closes, handled, extraction, config, passes, events,
                   stamp, fs, store, filter, logFile, handles, loop, tasks, seen,
                   lastDone, lastGood>>

\* Wait has returned: log.Println("File watcher stopped.") and main returns,
\* which ends the process with every goroutine and timer in it
MainReturns ==
    /\ mainPc = "returning"
    /\ mainPc' = "exited"
    /\ printed' = <<>>
    /\ UNCHANGED <<mainKind, sigLoop, sigWait, closes, handled, extraction, config, passes, events,
                   stamp, fs, store, filter, logFile, handles, loop, tasks, seen,
                   lastDone, lastGood>>

\* fw.logEvent in the keyed variant: a key seen before is skipped, a new key
\* is marked and its line written
KeyedOutcome(keys, key, wok) ==
    IF KeySeen(keys, key) THEN "suppressed"
    ELSE IF wok THEN "logged" ELSE "logfail"

\* case event := <-fw.watcher.Events, in the variant whose logEvent keeps the
\* map of keys and whose ParseFile runs on the loop's goroutine
WatchEventKeyed(e, wok) ==
    LET idx   == nEvents + 1
        key   == LogKey(e.name, e.op)
        res   == IF IsRemove(e.op) THEN "discarded"
                 ELSE KeyedOutcome(recentKeys, key, wok)
        parse == ~IsRemove(e.op) /\ IsWriteOrCreate(e.op)
    IN  /\ policy = "keyed"
        /\ Idle
        /\ ~wok => res = "logfail"
        /\ nEvents' = idx
        /\ last' = Seen(e, res, parse)
        /\ recentKeys' = IF res \in {"logged", "logfail"}
                         THEN recentKeys \cup {key} ELSE recentKeys
        /\ logFile' = IF res = "logged"
                      THEN Append(logFile, DebounceLine(e.name, e.op, stamp))
                      ELSE logFile
        /\ printed' = IF res = "logfail" THEN <<"logwrite">> ELSE <<>>
        /\ IF parse
           THEN /\ tasks' = tasks @@ (idx :> NewTask(e, "try", docMap[e.name]))
                /\ docMap' = Deleted(docMap, e.name)
                /\ jsonFailed' = jsonFailed \ {e.name}
                /\ loop' = "parsing"
           ELSE UNCHANGED <<tasks, docMap, jsonFailed, loop>>
        /\ UNCHANGED <<life, extraction, config, passes, events, stamp, fs, refJson, recentLogs,
                       handles, prev, cur, lastDone, lastGood>>

---------------------------------------------------------------------------
(* Specifications *)

Next ==
    \/ Tick
    \/ \E p \in Paths, c \in Contents : FsWrite(p, c)
    \/ nEvents < MaxEvents /\ UNCHANGED events /\
          \E e \in Events, wok \in BOOLEAN : WatchEventDedup(e, wok)
    \/ nEvents < MaxEvents /\ \E e \in Events : WatchEventDebounce(e)
    \/ \E t \in DOMAIN tasks : TimerFire(t)
    \/ UNCHANGED events /\
          \E t \in DOMAIN tasks, w \in WriteOutcomes, lw \in BOOLEAN : Attempt(t, w, lw)
    \/ WatchError
    \/ Signal

Spec == Init /\ [][Next]_vars

\* a burst of events while no other process touches the files, no error is
\* delivered, no signal arrives and every JSON write succeeds
NextBurst ==
    \/ Tick
    \/ nEvents < MaxBurst /\ UNCHANGED events /\
          \E e \in BurstEvents, wok \in BOOLEAN : WatchEventDedup(e, wok)
    \/ nEvents < MaxBurst /\ \E e \in BurstEvents : WatchEventDebounce(e)
    \/ \E t \in DOMAIN tasks : TimerFire(t)
    \/ UNCHANGED events /\ \E t \in DOMAIN tasks, lw \in BOOLEAN : Attempt(t, "ok", lw)

SpecBurst == Init /\ [][NextBurst]_vars

\* the process from the start of main: the three watcher variants, each with
\* the main it can be built with
InitLife ==
    /\ policy \in {"dedup", "debounce", "keyed"}
    /\ mode \in {"aggregate", "mirror"}
    /\ mainKind \in IF policy = "keyed" THEN {"forever"} ELSE {"forever", "wait"}
    /\ mainPc = "newWatcher"
    /\ loop = "unstarted"
    /\ watcherOpen = FALSE
    /\ logOpen = FALSE
    /\ stamp = 0
    /\ fs = [p \in Paths |-> "v1"]
    /\ docMap = EmptyMap
    /\ jsonFailed = {}
    /\ refJson = [state |-> "absent", map |-> EmptyMap]
    /\ recentLogs = <<>>
    /\ recentKeys = {}
    /\ logFile = <<>>
    /\ tasks = <<>>
    /\ printed = <<>>
    /\ nEvents = 0
    /\ last = [name |-> "", op |-> {}, res |-> "none", parsed |-> FALSE,
               inWindow |-> FALSE, settled |-> FALSE, afterErr |-> FALSE]
    /\ prev = None
    /\ cur = None
    /\ lastDone = NoCall
    /\ lastGood = EmptyMap
    /\ sigLoop = FALSE
    /\ sigWait = FALSE
    /\ closes = NoCloses
    /\ handled = FALSE
    /\ events = <<>>
    /\ NoParams
    /\ NoPasses

\* the steps of the program's goroutines
LifeStep ==
    \/ \E ok \in BOOLEAN : NewWatcher(ok)
    \/ \E ok \in BOOLEAN : MkdirLogs(ok)
    \/ \E ok \in BOOLEAN : OpenLog(ok)
    \/ \E ok \in BOOLEAN : WatchAdd(ok)
    \/ MainWaits
    \/ WaitSignal
    \/ WaitDone
    \/ MainReturns
    \/ Alive /\ LoopSignal
    \/ Alive /\ LoopChannelClosed
    \/ Alive /\ \E t \in DOMAIN tasks : TimerFire(t)
    \/ Alive /\ UNCHANGED events /\
          \E t \in DOMAIN tasks, w \in WriteOutcomes, lw \in BOOLEAN : Attempt(t, w, lw)

\* what the environment does: signals and events
LifeInput ==
    \/ SignalArrives
    \/ Alive /\ nEvents < MaxLifeEvents /\ UNCHANGED events /\
          \E e \in BurstEvents, wok \in BOOLEAN : WatchEventDedup(e, wok)
    \/ Alive /\ nEvents < MaxLifeEvents /\
          \E e \in BurstEvents : WatchEventDebounce(e)
    \/ Alive /\ nEvents < MaxLifeEvents /\
          \E e \in BurstEvents, wok \in BOOLEAN : WatchEventKeyed(e, wok)

NextLife == LifeStep \/ LifeInput

SpecLife == InitLife /\ [][NextLife]_vars

---------------------------------------------------------------------------
(* extractFileData: the parameters of a function declaration *)

\* type expressions (ast.Expr) as go/parser builds them for a parameter type
Ident(n) == [kind |-> "Ident", name |-> n]

NilExpr == [kind |-> "nil"]

StarExpr(x) == [kind |-> "StarExpr", x |-> x]

\* a field of a parameter list: the names declared together and their type
Field(names, type) == [names |-> names, type |-> type]

TypeExprs ==
    { Ident("int"),
      Ident("string"),
      [kind |-> "SelectorExpr", x |-> Ident("ast"), sel |-> "File"],
      [kind |-> "ArrayType", elt |-> Ident("string")],
      [kind |-> "ArrayType", elt |-> StarExpr(Ident("int"))],
      [kind |-> "MapType", key |-> Ident("string"), value |-> Ident("int")],
      StarExpr(Ident("int")),
      [kind |-> "FuncType",
       params |-> <<Field(<<>>, Ident("int")), Field(<<>>, Ident("string"))>>],
      [kind |-> "FuncType", params |-> <<Field(<<"a", "b">>, Ident("int"))>>],
      [kind |-> "ChanType", value |-> Ident("int")],
      [kind |-> "InterfaceType"],
      [kind |-> "Ellipsis", elt |-> Ident("int")] }

RECURSIVE formatType(_)
RECURSIVE JoinTypes(_, _)

\* formatFuncType's loop from index i: formatType(param.Type) of every field,
\* with ", " after each but the last
JoinTypes(list, i) ==
    IF i > Len(list) THEN ""
    ELSE formatType(list[i].type)
         \o (IF i < Len(list) THEN ", " ELSE "")
         \o JoinTypes(list, i + 1)

formatFuncType(t) == "(" \o JoinTypes(t.params, 1) \o ")"

formatType(expr) ==
    IF expr = NilExpr THEN ""
    ELSE CASE expr.kind = "Ident"         -> expr.name
           [] expr.kind = "SelectorExpr"  -> expr.x.name \o "." \o expr.sel
           [] expr.kind = "ArrayType"     -> "[]" \o formatType(expr.elt)
           [] expr.kind = "MapType"       -> "map[" \o formatType(expr.key)
                                             \o "]" \o formatType(expr.value)
           [] expr.kind = "StarExpr"      -> "*" \o formatType(expr.x)
           [] expr.kind = "FuncType"      -> "func" \o formatFuncType(expr)
           [] expr.kind = "ChanType"      -> "chan " \o formatType(expr.value)
           [] expr.kind = "InterfaceType" -> "interface{}"
           [] OTHER                       -> "<unknown type>"

\* the names a field of a function declaration's parameter list declares
ParamNames == {<<"x">>, <<"x", "y">>}

Fields == [names : ParamNames, type : TypeExprs]

FieldLists == UNION {[1..n -> Fields] : n \in 0..MaxFields}

\* the body of for _, param := range d.Type.Params.List: every name is
\* appended to Params, then the type once to ParamTypes
WithField(detail, param) ==
    [params     |-> detail.params \o param.names,
     paramTypes |-> Append(detail.paramTypes, formatType(param.type))]

\* one iteration of for _, param := range d.Type.Params.List
ParamField ==
    /\ nextField <= Len(paramFields)
    /\ funcDetail' = WithField(funcDetail, paramFields[nextField])
    /\ nextField' = nextField + 1
    /\ UNCHANGED <<paramFields, life, config, passes, events, stamp, fs, store, filter, logFile,
                   handles, loop, tasks, printed, seen, lastDone, lastGood>>

\* the watcher and the parser as constructed, no event received
Parked ==
    /\ policy = "dedup"
    /\ mode = "mirror"
    /\ stamp = 0
    /\ fs = [p \in Paths |-> "v1"]
    /\ docMap = EmptyMap
    /\ jsonFailed = {}
    /\ refJson = [state |-> "absent", map |-> EmptyMap]
    /\ recentLogs = <<>>
    /\ recentKeys = {}
    /\ logFile = <<>>
    /\ logOpen = TRUE
    /\ watcherOpen = TRUE
    /\ loop = "parsing"
    /\ tasks = <<>>
    /\ printed = <<>>
    /\ nEvents = 0
    /\ last = [name |-> "", op |-> {}, res |-> "none", parsed |-> FALSE,
               inWindow |-> FALSE, settled |-> FALSE, afterErr |-> FALSE]
    /\ prev = None
    /\ cur = None
    /\ lastDone = NoCall
    /\ lastGood = EmptyMap
    /\ mainPc = "wait"
    /\ mainKind = "forever"
    /\ sigLoop = FALSE
    /\ sigWait = FALSE
    /\ closes = NoCloses
    /\ handled = FALSE
    /\ events = <<>>

\* extractFileData has reached a function declaration with some parameter list
InitParams ==
    /\ paramFields \in FieldLists
    /\ funcDetail = NoDetail
    /\ nextField = 1
    /\ Parked
    /\ NoPasses

NextParams == ParamField

SpecParams == InitParams /\ [][NextParams]_vars

---------------------------------------------------------------------------
(* extractFileData: the declarations of a file *)

RECURSIVE JoinLines(_, _)
\* the lines of a comment from the i-th on, a space between two lines
JoinLines(lines, i) ==
    IF i > Len(lines) THEN ""
    ELSE lines[i] \o (IF i < Len(lines) THEN " " ELSE "") \o JoinLines(lines, i + 1)

\* sanitizeDoc(d.Doc.Text()): Text() ends every line with a newline, the
\* newlines become spaces and the space at the end is trimmed; no comment, no text
sanitizeDoc(lines) == JoinLines(lines, 1)

RECURSIVE FoldFields(_, _, _)
\* the loop over d.Type.Params.List from field i on
FoldFields(detail, fields, i) ==
    IF i > Len(fields) THEN detail
    ELSE FoldFields(WithField(detail, fields[i]), fields, i + 1)

\* the loop over d.Type.Results.List: formatType(result.Type) of every field
ReturnTypes(fields) == [k \in 1..Len(fields) |-> formatType(fields[k].type)]

\* case *ast.FuncDecl: the FunctionDetail of the declaration d
FunctionDetail(d) ==
    LET ps == FoldFields(NoDetail, d.params, 1)
    IN  [name        |-> d.name,
         docs        |-> sanitizeDoc(d.doc),
         params      |-> ps.params,
         paramTypes  |-> ps.paramTypes,
         returnTypes |-> ReturnTypes(d.results)]

FuncDecl(name, doc, params, results) ==
    [kind |-> "FuncDecl", name |-> name, doc |-> doc, params |-> params,
     results |-> results]

\* a var, const, type or import declaration with its first spec
GenDecl(tok, names, type, doc) ==
    [kind |-> "GenDecl", tok |-> tok, names |-> names, type |-> type, doc |-> doc]

\* the top-level declarations a file can hold
Decls ==
    { FuncDecl("main", <<>>, <<>>, <<>>),
      FuncDecl("Add", <<"Add adds.", "It returns the sum.">>,
               <<Field(<<"x", "y">>, Ident("int"))>>, <<Field(<<>>, Ident("int"))>>),
      GenDecl("var", <<"count">>, Ident("int"), <<"count counts.">>),
      GenDecl("var", <<"a", "b">>, NilExpr, <<>>),
      GenDecl("const", <<"Max">>, NilExpr, <<"Max is the limit.">>),
      GenDecl("type", <<"T">>, Ident("int"), <<>>) }

DeclLists == UNION {[1..n -> Decls] : n \in 0..MaxDecls}

\* one iteration of for _, decl := range node.Decls: the switch has the one
\* case *ast.FuncDecl
DeclStep ==
    LET d == decls[nextDecl]
    IN  /\ nextDecl <= Len(decls)
        /\ fileData' = IF d.kind = "FuncDecl"
                       THEN [fileData EXCEPT !.functions = Append(@, FunctionDetail(d))]
                       ELSE fileData
        /\ nextDecl' = nextDecl + 1
        /\ UNCHANGED <<decls, watching, extraction, build, subdirs>>

\* extractFileData has built FileData{Package: node.Name.Name} and the
\* imports, and reaches the loop over the declarations
InitDecls ==
    /\ decls \in DeclLists
    /\ fileData = [package |-> "main", imports |-> <<"fmt">>, functions |-> <<>>]
    /\ nextDecl = 1
    /\ Parked
    /\ NoParams
    /\ NoBuild
    /\ NoSubdirs

NextDecls == DeclStep

SpecDecls == InitDecls /\ [][NextDecls]_vars

---------------------------------------------------------------------------
(* BuildFileStructure: the walk that fills references/ at startup *)

\* a path is the sequence of its components
referencesDir == <<"references">>

srcDir == <<"src">>

\* filepath.Join
Join(a, b) == a \o b

\* what the walk visits: the root, directories and files, each with the
\* directory part of its path relative to the root, its name and its content
Root == [dir |-> <<>>, base |-> ".", ext |-> "", isDir |-> TRUE, content |-> ""]

DirNode(dir, base) ==
    [dir |-> dir, base |-> base, ext |-> "", isDir |-> TRUE, content |-> ""]

FileNode(dir, base, ext, c) ==
    [dir |-> dir, base |-> base, ext |-> ext, isDir |-> FALSE, content |-> c]

\* the trees walked, in filepath.Walk's lexical order: a.go, notes.txt, pkg, pkg/b.go
Trees ==
    { <<Root>>
        \o (IF a = "absent" THEN <<>> ELSE <<FileNode(<<>>, "a", ".go", a)>>)
        \o (IF n THEN <<FileNode(<<>>, "notes", ".txt", "v1")>> ELSE <<>>)
        \o (IF b = "nodir" THEN <<>> ELSE <<DirNode(<<>>, "pkg")>>)
        \o (IF b \in {"nodir", "absent"} THEN <<>>
            ELSE <<FileNode(<<"pkg">>, "b", ".go", b)>>) :
      a \in {"absent"} \cup Contents, n \in BOOLEAN,
      b \in {"nodir", "absent", "v1", "v2"} }

\* filepath.Rel(srcDir, path)
RelativePath(node) ==
    IF node = Root THEN <<".">> ELSE Join(node.dir, <<node.base \o node.ext>>)

\* the path the walk passes to the function
WalkPath(node) == IF node = Root THEN srcDir ELSE Join(srcDir, RelativePath(node))

\* strings.HasPrefix(path, referencesDir)
HasReferencesPrefix(path) == path # <<>> /\ path[1] = referencesDir[1]

\* targetPath[:len(targetPath)-len(filepath.Ext(targetPath))] + ".json"
JsonFilePath(node) ==
    Join(referencesDir, Join(node.dir, <<node.base \o ".json">>))

\* filepath.Dir
Dir(path) == SubSeq(path, 1, Len(path) - 1)

\* fp.docMap[key], the zero FileData for a key the map does not hold
Lookup(m, key) == IF key \in DOMAIN m THEN m[key] ELSE NoEntry

\* a file or directory made at path p
Made(r, p, c) == [q \in DOMAIN r \cup {p} |-> IF q = p THEN c ELSE r[q]]

BuildWriteOutcomes == WriteOutcomes \cup {"mkdirErr"}

\* parser.ParseFile(path) on a new FileParser: its docMap when it returns
ParsedMap(path, c) ==
    IF fileExistsAndReadable(c) /\ ParseOK(c) THEN (path :> Extract(c)) ELSE <<>>

\* parser.writeJSONToFile(path): MkdirAll(filepath.Dir(path)), os.Create(path),
\* Encode(fp.docMap[path])
WrittenJson(r, m, path, jw) ==
    IF jw = "mkdirErr" THEN r
    ELSE LET r1 == Made(r, Dir(path), "dir")
         IN  IF jw = "createErr" THEN r1
             ELSE IF jw = "encodeErr" THEN Made(r1, path, "empty")
             ELSE Made(r1, path, ToJson(Lookup(m, path)))

\* one call of the function BuildFileStructure gives to filepath.Walk
BuildNode(walkErr, mkOk, w, jw) ==
    LET node   == tree[nextNode]
        path   == WalkPath(node)
        skip   == HasReferencesPrefix(path) \/ RelativePath(node) = <<".">>
        target == Join(referencesDir, RelativePath(node))
        isGo   == ~node.isDir /\ node.ext = ".go"
        c      == srcNow[nextNode]
        m      == ParsedMap(path, c)
        final  == Join(referencesDir, JsonFilePath(node))
        fails  == \/ walkErr
                  \/ ~skip /\ node.isDir /\ ~mkOk
                  \/ ~skip /\ isGo /\ jw # "ok"
    IN  /\ built = "walking"
        /\ nextNode <= Len(tree)
        /\ ~mkOk => ~walkErr /\ ~skip /\ node.isDir
        /\ w # "ok" => ~walkErr /\ ~skip /\ isGo /\ m # <<>>
        /\ jw # "ok" => ~walkErr /\ ~skip /\ isGo
        /\ srcNow' = IF ~walkErr /\ ~skip /\ isGo /\ m # <<>>
                     THEN WriteMirror(srcNow, nextNode, (nextNode :> m[path]), w)
                     ELSE srcNow
        /\ refs' = IF walkErr \/ skip THEN refs
                   ELSE IF node.isDir
                   THEN (IF mkOk THEN Made(refs, target, "dir") ELSE refs)
                   ELSE IF isGo THEN WrittenJson(refs, m, final, jw)
                   ELSE refs
        /\ nextNode' = nextNode + 1
        /\ built' = IF fails THEN "failed"
                    ELSE IF nextNode = Len(tree) THEN "done" ELSE "walking"
        /\ UNCHANGED <<tree, watching, extraction, declarations, subdirs>>

\* main calls BuildFileStructure(dir) on some tree
InitBuild ==
    /\ tree \in Trees
    /\ nextNode = 1
    /\ srcNow = [k \in DOMAIN tree |-> tree[k].content]
    /\ refs = <<>>
    /\ built = "walking"
    /\ Parked
    /\ NoParams
    /\ NoDecls
    /\ NoSubdirs

NextBuild ==
    \E walkErr, mkOk \in BOOLEAN, w \in WriteOutcomes, jw \in BuildWriteOutcomes :
        BuildNode(walkErr, mkOk, w, jw)

SpecBuild == InitBuild /\ [][NextBuild]_vars

---------------------------------------------------------------------------
(* Watch and watchSubdirectories: the directories given to the watcher *)

\* what filepath.Walk passes to the function: a directory or a file, the
\* error of reading it, and whether fw.watcher.Add would accept its path
Entry(isDir, walkErr, addOk) == [isDir |-> isDir, walkErr |-> walkErr, addOk |-> addOk]

\* the root, which Watch has just added
RootEntry == Entry(TRUE, FALSE, TRUE)

Entries ==
    { Entry(TRUE, FALSE, TRUE), Entry(TRUE, FALSE, FALSE),
      Entry(FALSE, FALSE, FALSE), Entry(TRUE, TRUE, FALSE) }

\* the walks: the root first, then what lies below it
Walks == { <<RootEntry>> \o below : below \in UNION {[1..n -> Entries] : n \in 0..MaxWalk} }

\* one call of the function watchSubdirectories gives to filepath.Walk; an
\* error it returns ends the walk, and watchSubdirectories prints it
WalkEntry ==
    LET e     == walk[nextEntry]
        fails == e.walkErr \/ (e.isDir /\ ~e.addOk)
    IN  /\ walked = "walking"
        /\ nextEntry <= Len(walk)
        /\ registered' = IF ~e.walkErr /\ e.isDir /\ e.addOk
                         THEN registered \cup {nextEntry} ELSE registered
        /\ nextEntry' = nextEntry + 1
        /\ walked' = IF fails THEN "aborted"
                     ELSE IF nextEntry = Len(walk) THEN "done" ELSE "walking"
        /\ UNCHANGED <<walk, watching, extraction, declarations, build>>

\* Watch has added the root and calls watchSubdirectories
InitWalk ==
    /\ walk \in Walks
    /\ nextEntry = 1
    /\ registered = {1}
    /\ walked = "walking"
    /\ Parked
    /\ NoParams
    /\ NoDecls
    /\ NoBuild

NextWalk == WalkEntry

SpecWalk == InitWalk /\ [][NextWalk]_vars

---------------------------------------------------------------------------
(* The watcher on its own output: writeJSONToFile(filePath) writes into the
   watched tree, and the notification facility reports the writes *)

\* writeJSONToFile changes the file twice: os.Create truncates it and
\* Encode writes it
WritesPerJson == 2

\* the Write notifications of n changes of a file
Notes(name, n) == [i \in 1..n |-> [name |-> name, op |-> {"Write"}]]

\* the attempt reaches writeJSONToFile and os.Create succeeds
Written(c, w) == Parses(c) /\ w # "createErr"

\* the loop receives the oldest notification
Receive(wok) ==
    /\ events # <<>>
    /\ WatchEventDedup(Head(events), wok)
    /\ events' = Tail(events)

\* an attempt of the ParseFile call the loop is in; the changes it makes to
\* the file are notified, two of them at once as one notification or as two
OwnAttempt(t, w, lw, n) ==
    /\ Attempt(t, w, lw)
    /\ events' = IF Written(fs[tasks[t].name], w)
                 THEN events \o Notes(tasks[t].name, n)
                 ELSE events
    /\ ~Written(fs[tasks[t].name], w) => n = 1

\* the watcher in its loop, the files in any state, and the notification of
\* one write by another process
InitSelf ==
    /\ policy = "dedup"
    /\ mode = "mirror"
    /\ stamp = 0
    /\ fs \in [Paths -> Contents]
    /\ events \in {Notes(p, 1) : p \in Paths}
    /\ docMap = EmptyMap
    /\ jsonFailed = {}
    /\ refJson = [state |-> "absent", map |-> EmptyMap]
    /\ recentLogs = <<>>
    /\ recentKeys = {}
    /\ logFile = <<>>
    /\ logOpen = TRUE
    /\ watcherOpen = TRUE
    /\ loop = "select"
    /\ tasks = <<>>
    /\ printed = <<>>
    /\ nEvents = 0
    /\ last = [name |-> "", op |-> {}, res |-> "none", parsed |-> FALSE,
               inWindow |-> FALSE, settled |-> FALSE, afterErr |-> FALSE]
    /\ prev = None
    /\ cur = None
    /\ lastDone = NoCall
    /\ lastGood = EmptyMap
    /\ mainPc = "wait"
    /\ mainKind = "forever"
    /\ sigLoop = FALSE
    /\ sigWait = FALSE
    /\ closes = NoCloses
    /\ handled = FALSE
    /\ NoParams
    /\ NoPasses

NextSelf ==
    \/ Tick
    \/ nEvents < MaxSelf /\ \E wok \in BOOLEAN : Receive(wok)
    \/ \E t \in DOMAIN tasks, w \in WriteOutcomes, lw \in BOOLEAN, n \in 1..WritesPerJson :
          OwnAttempt(t, w, lw, n)

\* the loop's goroutine keeps running and the clock keeps going
SpecSelf == InitSelf /\ [][NextSelf]_vars /\ WF_vars(NextSelf)

---------------------------------------------------------------------------
(* Properties *)

\* no event is being handled and no ParseFile activation is scheduled or running
Quiescent == loop # "parsing" /\ DOMAIN tasks = {}

\* the step receives an event from watcher.Events
EventStep == nEvents' = nEvents + 1

\* the step is the return of task t's ParseFile call with the given result
Returns(t, result) ==
    /\ tasks[t].pc = "try"
    /\ t \notin DOMAIN tasks'
    /\ lastDone'.name = tasks[t].name
    /\ lastDone'.result = result

\* C1: when a ParseFile call fails (no attempt yields a syntax tree), docMap's
\* entry for its path after the call equals the entry from before the call.
C1_StalenessOnFailure ==
    [][\A t \in DOMAIN tasks :
          Returns(t, "fail") => docMap'[tasks[t].name] = tasks[t].before]_vars

\* C2: in every quiescent state, every path parsed successfully at least once
\* has the record of its most recent successful parse in docMap.
C2_StoreReflectsLastSuccess ==
    Quiescent =>
        \A p \in Paths : lastGood[p] # NoEntry => docMap[p] = lastGood[p]

\* C3: under immediate dedup, an event the filter suppressed as a duplicate
\* starts no ParseFile call.
C3_ExtractionGatedByFilter ==
    [][(policy = "dedup" /\ EventStep /\ last'.res = "suppressed")
          => DOMAIN tasks' = DOMAIN tasks]_vars

C5_NormalEditsNotSuppressed ==
    [][(policy = "debounce" /\ EventStep /\ last'.settled /\ "Remove" \notin last'.op)
          => nEvents' \in DOMAIN tasks']_vars

\* C6 as stated: under immediate dedup, of two consecutive non-Remove events
\* with the same path and operation, neither meeting a failed log write, the
\* first is logged and the second is suppressed, at whatever times they are observed.
C6_PairLoggedOnce ==
    (/\ policy = "dedup"
     /\ prev.res \notin {"none", "logfail"}
     /\ cur.res # "logfail"
     /\ <<prev.name, prev.op>> = <<cur.name, cur.op>>)
        => prev.res = "logged" /\ cur.res = "suppressed"

\* C6 amended: under immediate dedup, of two consecutive non-Remove events with
\* the same path and operation observed in the same clock second, the first
\* having been logged, the second is suppressed and the first one's line is the
\* last line of the log; observed in different seconds, the second is not suppressed.
C6_PairLoggedOnceSameSecond ==
    (/\ policy = "dedup"
     /\ prev.res = "logged"
     /\ <<prev.name, prev.op>> = <<cur.name, cur.op>>)
        => IF prev.at = cur.at
           THEN /\ cur.res = "suppressed"
                /\ logFile # <<>>
                /\ logFile[Len(logFile)] = LogEntry(prev.at, prev.name, prev.op)
           ELSE cur.res # "suppressed"

\* two identical events in one second: the first logged, the second suppressed
C6_Witness ==
    /\ policy = "dedup"
    /\ prev.res = "logged"
    /\ <<prev.name, prev.op, prev.at>> = <<cur.name, cur.op, cur.at>>
    /\ cur.res = "suppressed"

C8_RemoveDiscarded ==
    [][(EventStep /\ "Remove" \in last'.op)
          => /\ last'.res = "discarded"
             /\ UNCHANGED <<docMap, refJson, fs, recentLogs, recentKeys,
                            logFile, tasks, loop, lastDone>>
             /\ printed' = <<>>]_vars

\* a Remove event of an indexed path has been discarded, the entry retained
C8_Witness ==
    /\ "Remove" \in last.op
    /\ last.res = "discarded"
    /\ docMap[last.name] # NoEntry
    /\ Quiescent

\* C9: under both policies, no ParseFile call runs for an event whose operation
\* is neither Create nor Write.
C9_OnlyCreateWriteExtract ==
    \A t \in DOMAIN tasks : tasks[t].pc = "try" => IsWriteOrCreate(tasks[t].op)

\* the step reports a failure: an error from watcher.Errors, a failed
\* extraction, a failed JSON write or a failed log write
FailureStep ==
    \/ printed' # <<>>
    \/ \E t \in DOMAIN tasks : Returns(t, "fail")

\* the path whose event or ParseFile call the step belongs to
Culprit == IF EventStep THEN last'.name ELSE lastDone'.name

\* C10: a step that reports a failure leaves the watch loop running, with the
\* watcher and the log open as before, and changes docMap at no path but the
\* one the failure belongs to.
C10_FailuresNotFatal ==
    [][FailureStep =>
          /\ loop # "stopped" => loop' # "stopped"
          /\ UNCHANGED <<watcherOpen, logOpen>>
          /\ \A p \in Paths : docMap'[p] # docMap[p] => p = Culprit]_vars

\* an event was received right after a failure, a failed extraction behind it
C10_Witness ==
    /\ last.afterErr
    /\ lastDone.result = "fail"
    /\ loop # "stopped"

\* C11: the watcher and the log file are each closed at most once, and once
\* the loop has handled the signal or main has exited each has been closed
\* exactly once.
C11_ReleasedExactlyOnce ==
    /\ closes.watcher <= 1
    /\ closes.log <= 1
    /\ (handled \/ mainPc = "exited") => closes.watcher = 1 /\ closes.log = 1

\* C12: when the process ends on a fatal initialization error, no watcher and
\* no log file it acquired is still open.
C12_InitFailureReleases ==
    mainPc = "fatal" => ~watcherOpen /\ ~logOpen

\* C13: once the watch loop has handled the signal, no event is received,
\* given to the filter or logged, and no extraction is started.
C13_NoEventsAfterSignal ==
    [][handled =>
          /\ nEvents' = nEvents
          /\ UNCHANGED <<last, recentLogs, recentKeys, logFile>>
          /\ DOMAIN tasks' \subseteq DOMAIN tasks
          /\ loop' = "stopped"]_vars

\* the signal has been handled while the process lives and events may still come
C13_Witness ==
    /\ handled
    /\ Alive
    /\ loop = "stopped"
    /\ nEvents < MaxLifeEvents

\* C14: main exits only after a signal has made Close run, and once the loop
\* has handled a signal and no goroutine can take a step any more, main has exited.
C14_ShutdownCompletes ==
    /\ mainPc = "exited" => closes.watcher > 0
    /\ (handled /\ ~ENABLED LifeStep) => mainPc = "exited"

\* the step is an iteration of tryParseFile's loop in the call t
Attempted(t) ==
    /\ tasks[t].pc = "try"
    /\ t \notin DOMAIN tasks' \/ tasks'[t] # tasks[t]

\* the file at path p yields a syntax tree
Good(p) == fileExistsAndReadable(fs[p]) /\ ParseOK(fs[p])

Has(seq, x) == \E k \in DOMAIN seq : seq[k] = x

\* C15: tryParseFile makes at most retryCount attempts.  An attempt that
\* yields a syntax tree ends the call with success at once; any other attempt,
\* an empty or unreadable file included, is counted, and the attempt number
\* retryCount ends the call with failure.
C15_BoundedRetry ==
    [][\A t \in DOMAIN tasks : Attempted(t) =>
          /\ tasks[t].i < retryCount
          /\ IF Good(tasks[t].name)
             THEN Returns(t, "ok") /\ lastDone'.tries = tasks[t].i + 1
             ELSE IF tasks[t].i + 1 < retryCount
             THEN /\ t \in DOMAIN tasks'
                  /\ tasks'[t].pc = "try"
                  /\ tasks'[t].i = tasks[t].i + 1
             ELSE Returns(t, "fail") /\ lastDone'.tries = retryCount]_vars

\* a call has returned after retryCount attempts that all found the file
\* empty or unreadable
C15_Witness ==
    /\ lastDone.result = "fail"
    /\ lastDone.tries = retryCount
    /\ lastDone.lastErr = NoError

\* C16: a first attempt that finds the file empty does not end the call, and
\* a later attempt that finds valid content ends it with the record of that
\* content stored.
C16_RetryTolerance ==
    [][\A t \in DOMAIN tasks : Attempted(t) =>
          /\ (tasks[t].i = 0 /\ ~fileExistsAndReadable(fs[tasks[t].name])) =>
                 /\ t \in DOMAIN tasks'
                 /\ tasks'[t].pc = "try"
                 /\ tasks'[t].i = 1
          /\ (tasks[t].i > 0 /\ Good(tasks[t].name)) =>
                 /\ Returns(t, "ok")
                 /\ docMap'[tasks[t].name] = Extract(fs[tasks[t].name])]_vars

\* a call has succeeded on a later attempt after finding the file empty on
\* every earlier one, and the store holds the record it extracted
C16_Witness ==
    /\ lastDone.result = "ok"
    /\ lastDone.tries > 1
    /\ lastDone.lastErr = NoError
    /\ docMap[lastDone.name] # NoEntry
    /\ docMap[lastDone.name] = lastGood[lastDone.name]

\* C17: a call whose attempts all fail returns a non-nil error and ParseFile
\* logs it.
C17_ExhaustionReported ==
    [][\A t \in DOMAIN tasks : Returns(t, "fail") =>
          /\ lastDone'.lastErr # NoError
          /\ Has(printed', "parse")]_vars

\* the file at path p holds what a successful ParseFile that stored rec left
\* there: the content it parsed, or the JSON it wrote at that path
Untouched(p, rec) ==
    \/ ParseOK(fs[p]) /\ Extract(fs[p]) = rec
    \/ fs[p] = ToJson(rec)

\* C19: a ParseFile call on a path whose entry an earlier call stored, the
\* file holding what that call left, returns with the entry equal to the one
\* from before it.
C19_Idempotent ==
    [][\A t \in DOMAIN tasks :
          ( /\ Attempted(t)
            /\ t \notin DOMAIN tasks'
            /\ tasks[t].before # NoEntry
            /\ Untouched(tasks[t].name, tasks[t].before) ) =>
          docMap'[tasks[t].name] = tasks[t].before]_vars

\* C20: when writeJSONToFile fails, the call still succeeds, the store holds
\* the record just extracted, and the failure is only printed.
C20_WriteFailureKeepsRecord ==
    [][\A t \in DOMAIN tasks : (Attempted(t) /\ Has(printed', "json")) =>
          /\ Returns(t, "ok")
          /\ docMap'[tasks[t].name] = Extract(fs[tasks[t].name])
          /\ docMap'[tasks[t].name] # NoEntry
          /\ lastGood'[tasks[t].name] = docMap'[tasks[t].name]
          /\ UNCHANGED <<watcherOpen, logOpen>>]_vars

\* a JSON write has just failed and the store holds the record of the call
C20_Witness ==
    /\ Has(printed, "json")
    /\ lastDone.result = "ok"
    /\ docMap[lastDone.name] # NoEntry

RECURSIVE TypePerName(_)
\* the rendered type of every declared parameter name, in declaration order
TypePerName(fields) ==
    IF fields = <<>> THEN <<>>
    ELSE [k \in 1..Len(Head(fields).names) |-> formatType(Head(fields).type)]
         \o TypePerName(Tail(fields))

\* C18: when the parameter loop has ended, param_types has the length of
\* params and its i-th element is the rendered type of the i-th parameter.
C18_ParamTypesAligned ==
    nextField > Len(paramFields) =>
        /\ Len(funcDetail.paramTypes) = Len(funcDetail.params)
        /\ funcDetail.paramTypes = TypePerName(paramFields)

\* the persisted index holds the record the store has for path p
Persisted(p) ==
    IF mode = "aggregate"
    THEN refJson.state = "written" /\ refJson.map[p] = docMap[p]
    ELSE fs[p] = ToJson(docMap[p])

\* C21: when an extraction succeeds and its JSON write succeeds, every path
\* whose record is stored but whose own JSON write had failed is in the
\* persisted index with that record again.
C21_SelfHealing ==
    [][\A t \in DOMAIN tasks :
          (Returns(t, "ok") /\ ~Has(printed', "json")) =>
          \A p \in jsonFailed : docMap'[p] = docMap[p] => Persisted(p)']_vars

\* the next iteration of tryParseFile in the call t yields a syntax tree, and
\* extractFileData then assigns fp.docMap[filePath]
AtStore(t) == tasks[t].pc = "try" /\ Good(tasks[t].name)

\* C26: no two extraction tasks are at an access to the document store at
\* the same time (the store half of the claim; the key table is touched by
\* the watch loop alone).
C26_StoreExclusive ==
    \A t, u \in DOMAIN tasks : t # u => ~(AtStore(t) /\ AtStore(u))

\* C27: while an extraction sleeps between two attempts and no signal has
\* been handled, the watch loop is at its select and can take an event of
\* another path or the signal.
C27_RetryDoesNotStall ==
    (~handled /\ \E t \in DOMAIN tasks : tasks[t].pc = "try" /\ tasks[t].i > 0)
        => Idle

\* C28: when the record of an extraction takes effect on the store, no
\* extraction triggered by a later accepted event for the same path has
\* begun to act on the store.
C28_PerPathOrder ==
    [][\A t, u \in DOMAIN tasks :
          (Returns(t, "ok") /\ u > t /\ tasks[u].name = tasks[t].name)
              => tasks[u].pc = "armed"]_vars

\* C29: an iteration of tryParseFile, extractFileData and writeJSONToFile
\* included, leaves the content of every watched file as it was.
C29_SourceUntouched ==
    [][\A t \in DOMAIN tasks : Attempted(t) => fs' = fs]_vars

\* C30: in aggregate mode, in a quiescent state with no failed JSON write,
\* reference.json holds the store: the same paths with the same records.
C30_IndexEqualsStore ==
    (mode = "aggregate" /\ Quiescent /\ jsonFailed = {} /\ refJson.state # "truncated")
        => refJson.map = docMap

\* the number of parameters a field declares
Arity(field) == IF field.names = <<>> THEN 1 ELSE Len(field.names)

RECURSIVE Render(_)
RECURSIVE RenderParams(_, _, _)

\* the rendered type of every parameter from the n-th of field i on, joined by ", "
RenderParams(list, i, n) ==
    IF i > Len(list) THEN ""
    ELSE IF n > Arity(list[i]) THEN RenderParams(list, i + 1, 1)
    ELSE Render(list[i].type)
         \o (IF n < Arity(list[i]) \/ i < Len(list) THEN ", " ELSE "")
         \o RenderParams(list, i, n + 1)

\* the string the rules give for a type expression
Render(e) ==
    CASE e.kind = "Ident"         -> e.name
      [] e.kind = "SelectorExpr"  -> e.x.name \o "." \o e.sel
      [] e.kind = "StarExpr"      -> "*" \o Render(e.x)
      [] e.kind = "ArrayType"     -> "[]" \o Render(e.elt)
      [] e.kind = "MapType"       -> "map[" \o Render(e.key) \o "]" \o Render(e.value)
      [] e.kind = "ChanType"      -> "chan " \o Render(e.value)
      [] e.kind = "FuncType"      -> "func(" \o RenderParams(e.params, 1, 1) \o ")"
      [] e.kind = "InterfaceType" -> "interface{}"
      [] OTHER                    -> "<unknown type>"

\* C25: the string formatType gives for the type of every field processed
\* is the one the rules define for its shape, the function rule joining the
\* rendered type of every parameter, and <unknown type> only for other shapes.
C25_RenderByRules ==
    \A k \in 1..Len(funcDetail.paramTypes) :
        funcDetail.paramTypes[k] = Render(paramFields[k].type)

\* the variable records of a stored record
VariablesOf(rec) == IF "variables" \in DOMAIN rec THEN rec.variables ELSE <<>>

IsVarDecl(d) == d.kind = "GenDecl" /\ d.tok \in {"var", "const"}

\* first declared name, rendered type or empty string, doc text
VarRecord(d) ==
    [name |-> d.names[1], type |-> formatType(d.type), docs |-> sanitizeDoc(d.doc)]

\* C24: when the loop over the declarations has ended, the record holds one
\* variable record for every top-level var or const declaration, in order.
C24_VariablesRecorded ==
    nextDecl > Len(decls) =>
        LET V == SelectSeq(decls, IsVarDecl)
        IN  VariablesOf(fileData) = [k \in 1..Len(V) |-> VarRecord(V[k])]

\* the JSON file that mirrors a source file under references/
MirrorOf(node) == Join(referencesDir, Join(node.dir, <<node.base \o ".json">>))

IsGoFile(node) == ~node.isDir /\ node.ext = ".go"

\* C22: when BuildFileStructure has returned without error, every .go file
\* that parses has its JSON file at the mirrored location under references/,
\* holding the record extracted from it, and references/ holds no other file.
C22_MirrorMaterialized ==
    built = "done" =>
        /\ \A k \in DOMAIN tree :
              (IsGoFile(tree[k]) /\ ParseOK(tree[k].content)) =>
                 /\ MirrorOf(tree[k]) \in DOMAIN refs
                 /\ refs[MirrorOf(tree[k])] = ToJson(Extract(tree[k].content))
        /\ \A p \in DOMAIN refs :
              refs[p] # "dir" => \E k \in DOMAIN tree :
                                    IsGoFile(tree[k]) /\ p = MirrorOf(tree[k])

\* C23: when watchSubdirectories has returned and Watch goes on to its
\* loop, the root is registered and so is every directory of the walk that
\* the watcher accepts, whatever happened to the directories before it.
C23_SubdirsRegistered ==
    (walked # "walking" /\ \A k \in DOMAIN walk : ~walk[k].walkErr) =>
        /\ 1 \in registered
        /\ \A k \in DOMAIN walk :
              (walk[k].isDir /\ walk[k].addOk) => k \in registered

\* the step in which the function given to time.AfterFunc reaches fw.logEvent
DeferredLogEvent == policy = "debounce" /\ \E t \in DOMAIN tasks : t \notin DOMAIN tasks'

\* C31: under windowed debounce a deferred task never uses the log file
\* after Close has released it: whenever the deferred function calls
\* logEvent, the log file is still open.
C31_NoUseAfterClose == [][DeferredLogEvent => logOpen]_vars

\* the loop waits in select, no ParseFile call is running and no notification
\* of the program's own writes is left to receive
Settled == Quiescent /\ events = <<>>

\* C32: the output file lies in the watched tree (it is the parsed file) and
\* one write by another process is notified; then at most 1 + WritesPerJson
\* extractions are started and the system comes to rest for good.
C32_NoEndlessSelfTrigger == <>[](Settled /\ nEvents <= 1 + WritesPerJson)

\* the program's own write has been notified, the notifications have been
\* received and extracted, and the system is at rest
C32_Witness ==
    /\ Settled
    /\ nEvents = 1 + WritesPerJson
    /\ lastDone.result = "fail"
    /\ \E p \in Paths : fs[p] \in {"j1", "j2"} /\ lastGood[p] # NoEntry

====
